---- MODULE Spec2Model ----
(***************************************************************************)
(* Model of the hmi-live tag distribution engine                           *)
(* (src/DemoHMI/liveDataAPI/index.js): the SSE client set, the diff        *)
(* poller, the PLC comms (heartbeat / handshake) detector and the          *)
(* keepalive timer; with its peers: the ServerConnect proxy of the stream  *)
(* (src/DemoServerConnect), the peer scanner (src/unnamed/part_000) and    *)
(* the handshake of the demo simulator (src/DemoHMI/demo-hmi.js).  Node    *)
(* runs every handler and timer callback to completion on one thread, so   *)
(* each handler is one atomic action.                                      *)
(***************************************************************************)
EXTENDS Integers, Sequences, FiniteSets, TLC

\* ------------------------------------------------------------------ bounds
\* Number of stream connections (response objects) open at the same time.
MaxClients == 2
\* Number of items in the sections of a layout.
MaxItems == 2
\* Number of rows of a source of the array shape.
MaxRows == 2
\* Number of chunks an upstream stream delivers.
MaxChunks == 2
\* Number of host addresses of a subnet (1..254 in scanSubnet).
MaxHosts == 4

\* ------------------------------------------------------- program constants
POLL_MS == 250
HEARTBEAT_TIMEOUT_MS == POLL_MS * 6
DEFAULT_HB_TAG == "TOHMI_CRC_Handshake"
\* SCAN_MAX_CONCURRENCY, set below the number of host addresses.
MAX_CONCURRENCY == 2
\* The last value of the simulator's handshake, and its pause in periods of
\* the interval (3000 ms / 1000 ms).
HB_LAST == 300
PAUSE_TICKS == 3

\* --------------------------------------------------------------- JS values
\* A JavaScript value is a record [k, n]: its type and, for numbers and
\* decimal strings, the integer it denotes.  Strict equality (===) of two
\* such values is equality of the records.
Null == [k |-> "null", n |-> 0]
Undefined == [k |-> "undefined", n |-> 0]
Num(i) == [k |-> "number", n |-> i]
Str(i) == [k |-> "string", n |-> i]
Bool(b) == [k |-> "boolean", n |-> IF b THEN 1 ELSE 0]
\* Marks a tag the source object has no own property for.
Absent == [k |-> "absent", n |-> 0]

\* Number(v): null is 0, a decimal string is its number, undefined is NaN.
NaN == [fin |-> FALSE, n |-> 0]
ToNumber(v) ==
  CASE v.k = "number" -> [fin |-> TRUE, n |-> v.n]
    [] v.k = "string" -> [fin |-> TRUE, n |-> v.n]
    [] v.k = "boolean" -> [fin |-> TRUE, n |-> v.n]
    [] v.k = "null" -> [fin |-> TRUE, n |-> 0]
    [] OTHER -> NaN

\* a !== b on numbers: NaN differs from everything, itself included.
NumNeq(a, b) == ~a.fin \/ ~b.fin \/ a.n # b.n

\* a ?? b
Coalesce(a, b) == IF a = Null \/ a = Undefined THEN b ELSE a

\* ------------------------------------------------------------ environment
\* Tags the registry can hold (they match TAG_REGEX) and beat tag names.
SPEED_TAG == "TOHMI_R1_currentSpeed"
MODE_TAG == "TOHMI_Module1_autoMode"
\* The tag whose broadcasts the model follows.
PROBE_TAG == SPEED_TAG
Registries == { <<>>, <<SPEED_TAG, MODE_TAG>> }
\* settings.HEARTBEAT: "" stands for an unset (falsy) setting.
HbSettings == {"", "Heartbeat", "PLC_Alive"}
AllTags == {SPEED_TAG, MODE_TAG, DEFAULT_HB_TAG, "Heartbeat", "PLC_Alive"}

\* Values the source holds for the beat tag and for any other tag.
BeatVals == {Absent, Num(0), Num(1)}
TagVals == {Absent, Num(1), Str(1)}

Clients == 1..MaxClients
Range(s) == {s[i] : i \in 1..Len(s)}

VARIABLES
  registry,     \* registry.tags: the ordered tag list built by attach
  settings,     \* getAllSettings().HEARTBEAT
  data,         \* the object getAllData() returns: tag -> value or Absent
  now,          \* Date.now()
  sseClients,   \* the Set of open responses, in insertion order; a response
                \* is named by its position in that order
  lastSent,     \* Map tagId -> {value, ts}
  pollTimer,    \* TRUE once setInterval has been armed
  timers,       \* the number of polling intervals setInterval has created
  req,          \* the route and the credentials of the last HTTP request
  layout,       \* the layout loadLayoutJSON returned
  widgetsMap,   \* the templates loadWidgetsNDJSON returned, in Map order
  built,        \* what buildRegistry returned, once attach has called it
  lastBeatTs,   \* Null or Num(time of the last detected beat)
  lastBeatVal,  \* Undefined or the last raw beat value read
  lastCommsOk,  \* Null, or the last announced comms state
  lastBcast,    \* the value of PROBE_TAG last written to a client by a tick patch
  beatAt,       \* Null or Num(time at which an evaluation last detected a beat)
  tickPrev,     \* the raw beat value the last evaluating tick read
  view,         \* per open response, in the order of sseClients: the value
                \* of PROBE_TAG and the ok last written to it
  out,          \* what the last step did
  proxy,        \* ServerConnect: the request to /hmi it is serving
  scan,         \* ServerConnect: the scanSubnet call in progress
  sim           \* the demo simulator: the closure of startHandshake

\* The engine, and the processes around it.
core == <<registry, settings, data, now, sseClients, lastSent, pollTimer, timers,
          req, layout, widgetsMap, built,
          lastBeatTs, lastBeatVal, lastCommsOk,
          lastBcast, beatAt, tickPrev, view, out>>
peers == <<proxy, scan, sim>>
vars == <<core, peers>>

config == <<layout, widgetsMap, built>>

\* ------------------------------------------------------------ data access
\* The source getAllData() returns is Null, an array [rows |-> <<...>>] or
\* an object map: a function from tag names to what the property holds,
\* Absent for no own property.
\* A string that is a tag name, as the key of a row.
Name(s) == [k |-> "name", n |-> 0, s |-> s]
\* An object with the properties value and ts; one it lacks is Absent.
Obj(v, ts) == [k |-> "object", n |-> 0, value |-> v, ts |-> ts]
\* A row object of the array shape; a property it lacks is Undefined.
NoRow == [k |-> "row", n |-> 0, tagId |-> Undefined, name |-> Undefined,
          tag |-> Undefined, id |-> Undefined, value |-> Undefined,
          val |-> Undefined, v |-> Undefined, ts |-> Undefined,
          timestamp |-> Undefined]
IsArray(x) == DOMAIN x = {"rows"}
\* Reading a property: undefined when the object lacks it.
Prop(x) == IF x = Absent THEN Undefined ELSE x

\* A deviating read, myDataAll?.[tagId] without any of the defaults; C24 must
\* tell it from the program's.
ReadOneRaw(myDataAll, tagId) ==
  IF myDataAll = Null \/ IsArray(myDataAll) \/ tagId \notin DOMAIN myDataAll
    THEN [value |-> Undefined, ts |-> Null]
    ELSE [value |-> Prop(myDataAll[tagId]), ts |-> Null]

\* A deviating row search that knows a row only by its tagId and its value;
\* C35 must tell it from the program's.
RECURSIVE FindRowStrict(_, _)
FindRowStrict(rows, tagId) ==
  IF rows = <<>> THEN [value |-> Null, ts |-> Null]
  ELSE LET row == Head(rows) IN
       IF row.k = "row" /\ row.tagId = Name(tagId)
         THEN [value |-> Coalesce(row.value, Null),
               ts |-> Coalesce(Coalesce(row.ts, row.timestamp), Null)]
         ELSE FindRowStrict(Tail(rows), tagId)

\* for (const row of myDataAll) of readOne: the first row whose key is the
\* tag.
RECURSIVE FindRow(_, _)
FindRow(rows, tagId) ==
  IF rows = <<>> THEN [value |-> Null, ts |-> Null]
  ELSE LET row == Head(rows) IN
       IF row.k # "row" THEN FindRow(Tail(rows), tagId)
       ELSE LET key == Coalesce(Coalesce(Coalesce(row.tagId, row.name), row.tag), row.id)
            IN IF key = Name(tagId)
                 THEN [value |-> Coalesce(Coalesce(Coalesce(row.value, row.val), row.v), Null),
                       ts |-> Coalesce(Coalesce(row.ts, row.timestamp), Null)]
                 ELSE FindRow(Tail(rows), tagId)

\* readOne
ReadOne(myDataAll, tagId) ==
  IF myDataAll = Null THEN [value |-> Null, ts |-> Null]
  ELSE IF IsArray(myDataAll) THEN FindRow(myDataAll.rows, tagId)
  ELSE IF tagId \in DOMAIN myDataAll /\ myDataAll[tagId] # Absent
    THEN LET v == myDataAll[tagId] IN
         IF v.k = "object" /\ (v.value # Absent \/ v.ts # Absent)
           THEN [value |-> Coalesce(Prop(v.value), Null), ts |-> Coalesce(Prop(v.ts), Null)]
           ELSE [value |-> v, ts |-> Null]
  ELSE [value |-> Null, ts |-> Null]

\* A deviating snapshot that leaves out the tags missing from the source; C4
\* must tell it from the program's.
BuildSnapshotPresent(myDataAll, tagIds) ==
  LET present == SelectSeq(tagIds, LAMBDA g : myDataAll[g] # Absent)
  IN [i \in 1..Len(present) |->
        [tagId |-> present[i], value |-> myDataAll[present[i]], ts |-> Null]]

\* buildSnapshot: tagIds.map(t => ({ tagId: t, ...readOne(myDataAll, t) }))
BuildSnapshot(myDataAll, tagIds) ==
  [i \in 1..Len(tagIds) |->
     [tagId |-> tagIds[i],
      value |-> ReadOne(myDataAll, tagIds[i]).value,
      ts |-> ReadOne(myDataAll, tagIds[i]).ts]]

\* ------------------------------------------------------------- PLC comms
HbTag(s) == IF s = "" THEN DEFAULT_HB_TAG ELSE s
\* String(hbTag).toLowerCase().includes(...) over the names of the model.
IsHeartbeat(tag) == tag \in {"Heartbeat"}
IsHandshakeLike(tag) == tag \in {"TOHMI_CRC_Handshake"}

BeatDetected(tag, hbVal, prevVal) ==
  IF IsHeartbeat(tag)
    THEN prevVal # Undefined /\ hbVal # prevVal
  ELSE IF IsHandshakeLike(tag)
    THEN LET num == ToNumber(hbVal) IN
         /\ num.fin /\ num.n >= 0
         /\ (prevVal = Undefined \/ NumNeq(num, ToNumber(prevVal)))
  ELSE prevVal # Undefined /\ hbVal # prevVal

\* A deviating window that excludes its boundary; C7 must tell it from the
\* program's.
CommsOkStrict(beatTs, t) ==
  beatTs # Null /\ (t - beatTs.n) < HEARTBEAT_TIMEOUT_MS

CommsOk(beatTs, t) == beatTs # Null /\ (t - beatTs.n) <= HEARTBEAT_TIMEOUT_MS

\* computePlcCommsState with advanceState: true; the result and the new
\* beat state.
ComputePlcCommsState ==
  LET hbTag == HbTag(settings)
      hbVal == ReadOne(data, hbTag).value
      beat == BeatDetected(hbTag, hbVal, lastBeatVal)
      newTs == IF beat THEN Num(now) ELSE lastBeatTs
  IN [beat |-> beat, hbVal |-> hbVal, beatTs |-> newTs,
      ok |-> CommsOk(newTs, now)]

\* ---------------------------------------------------------------- events
\* for (const c of sseClients) sseWrite(c, ...): failAt is the position of
\* the first client whose write throws, 0 when none does.
Written(failAt) ==
  IF failAt = 0 THEN Range(sseClients)
  ELSE {sseClients[i] : i \in 1..(failAt - 1)}
Thrown(failAt) == IF failAt = 0 THEN {} ELSE {sseClients[failAt]}

Quiet == [op |-> "env", client |-> 0, events |-> <<>>, diffed |-> FALSE,
          updates |-> <<>>, patchTo |-> {}, evaluated |-> FALSE,
          beat |-> FALSE, ok |-> FALSE, commsTo |-> {}, failed |-> {}]

\* ------------------------------------------------------------------ Init
NoEntry == [has |-> FALSE, value |-> Null, ts |-> Null]
Entry(v, ts) == [has |-> TRUE, value |-> v, ts |-> ts]

\* ServerConnect with no request to /hmi: the route and the token of the
\* request, the number of calls to hmi-live it caused, the upstream fetch
\* (none, pending, open, ended, errored, aborted, failed), the client's
\* connection, whether res.on('close') is registered, the chunks upstream
\* delivered, what was written to res and whether res.end() was called.
ProxyIdle ==
  [route |-> "", token |-> "", calls |-> 0, upstream |-> "none", client |-> "none",
   listening |-> FALSE, arrived |-> <<>>, written |-> <<>>, ended |-> FALSE]
\* No scanSubnet call: localIp (0 for an address outside the subnet), the
\* queue, the addresses whose probe is awaited, the addresses probed so far in
\* order, those that answered OK, results, and what scanSubnet returned.
ScanIdle ==
  [phase |-> "idle", localIp |-> 0, queue |-> <<>>, inflight |-> {}, probed |-> <<>>,
   answered |-> {}, results |-> <<>>, returned |-> <<>>]
\* startHandshake up to its setInterval: hb, active, the value published
\* under the handshake tag, and the interval ticks until the restart timeout
\* is due (-1 when none is pending).
SimStart == [hb |-> 1, active |-> TRUE, value |-> 1, timeout |-> -1]

\* The state of the module once loaded, but for the source.
Boot ==
  /\ registry \in Registries
  /\ settings \in HbSettings
  /\ now = 0
  /\ sseClients = <<>>
  /\ lastSent = [t \in AllTags |-> NoEntry]
  /\ pollTimer = FALSE
  /\ timers = 0
  /\ req = [route |-> "", token |-> ""]
  /\ layout = [pages |-> <<>>]
  /\ widgetsMap = <<>>
  /\ built = [stage |-> "start", tags |-> <<>>, metaByTag |-> <<>>]
  /\ lastBeatTs = Null
  /\ lastBeatVal = Undefined
  /\ lastCommsOk = Null
  /\ lastBcast = Undefined
  /\ beatAt = Null
  /\ tickPrev = Undefined
  /\ view = <<>>
  /\ out = Quiet
  /\ proxy = ProxyIdle
  /\ scan = ScanIdle
  /\ sim = SimStart

Init == Boot /\ data = [t \in AllTags |-> Absent]

\* ------------------------------------------------------------- poll tick
\* A deviating comparison, after numeric conversion instead of strict
\* inequality; C1 must tell it from the program's.
ValueChangedNumeric(prev, cur) ==
  ~prev.has \/ NumNeq(ToNumber(prev.value), ToNumber(cur.value))

\* const valueChanged = !prev || prev.value !== cur.value
ValueChanged(prev, cur) == ~prev.has \/ prev.value # cur.value

\* A deviating tick that never records what it sent; C2 must tell it from
\* the program's.
NextSentKeep(prev, cur, t) == prev

\* A deviating tick without the else-if branch: a newer source timestamp
\* alone changes nothing; C31 must tell it from the program's.
NextSentNoStamp(prev, cur, t) ==
  IF ValueChanged(prev, cur) THEN Entry(cur.value, Coalesce(cur.ts, Num(t)))
  ELSE prev

\* The lastSent entry a tick leaves for one tag.
NextSent(prev, cur, t) ==
  IF ValueChanged(prev, cur) THEN Entry(cur.value, Coalesce(cur.ts, Num(t)))
  ELSE IF prev.has /\ cur.ts # Null /\ cur.ts.n > prev.ts.n
    THEN Entry(prev.value, cur.ts)
  ELSE prev

\* The updates array of a tick, in registry order.
Updates(tags, sent, myDataAll, t) ==
  LET ch == SelectSeq(tags, LAMBDA g : ValueChanged(sent[g], ReadOne(myDataAll, g)))
  IN [i \in 1..Len(ch) |->
        [tagId |-> ch[i],
         value |-> ReadOne(myDataAll, ch[i]).value,
         ts |-> Coalesce(ReadOne(myDataAll, ch[i]).ts, Num(t))]]

\* if (lastCommsOk === null || plc.ok !== lastCommsOk)
Announce(prevOk, ok) == prevOk = Null \/ Bool(ok) # prevOk

\* A deviating callback without its try/catch: a throw ends the loop; C11
\* must tell it from the program's.
SwallowNothing(timer, threw) == timer /\ ~threw

\* try { ... } catch { } around the whole callback: whatever throws inside
\* is swallowed and the interval stays armed.
Swallow(timer, threw) == timer

\* One run of the setInterval callback of startPolling.
\*   throwAt   : "data" when the first getAllData() throws, "comms" when a
\*               query inside computePlcCommsState throws, "none" otherwise
\*   failPatch : position of the first client whose patch write throws
\*   failComms : position of the first client whose plc-comms write throws
Tick(throwAt, failPatch, failComms) ==
  LET updates == Updates(registry, lastSent, data, now)
      changed == {g \in Range(registry) : ValueChanged(lastSent[g], ReadOne(data, g))}
      newSent == [g \in AllTags |->
                    IF g \in Range(registry)
                      THEN NextSent(lastSent[g], ReadOne(data, g), now)
                      ELSE lastSent[g]]
      doPatch == Len(updates) > 0 /\ Len(sseClients) > 0
      patchTo == IF doPatch THEN Written(failPatch) ELSE {}
      patchThrew == doPatch /\ failPatch # 0
      reachComms == ~patchThrew /\ throwAt # "comms"
      plc == ComputePlcCommsState
      announce == reachComms /\ Announce(lastCommsOk, plc.ok)
      doComms == announce /\ Len(sseClients) > 0
      commsTo == IF doComms THEN Written(failComms) ELSE {}
      threw == throwAt # "none" \/ patchThrew \/ (doComms /\ failComms # 0)
  IN
  /\ pollTimer
  /\ throwAt # "data" => (doPatch \/ failPatch = 0)
  /\ throwAt # "data" => (doComms \/ failComms = 0)
  /\ throwAt = "data" => (failPatch = 0 /\ failComms = 0)
  /\ patchThrew => throwAt = "none"
  /\ IF throwAt = "data"
       THEN /\ out' = [Quiet EXCEPT !.op = "tick"]
            /\ UNCHANGED <<lastSent, lastBcast, lastBeatTs, lastBeatVal,
                           lastCommsOk, beatAt, tickPrev>>
       ELSE /\ lastSent' = newSent
            /\ lastBcast' = IF patchTo # {} /\ PROBE_TAG \in changed
                               THEN ReadOne(data, PROBE_TAG).value ELSE lastBcast
            /\ IF reachComms
                 THEN /\ lastBeatTs' = plc.beatTs
                      /\ lastBeatVal' = plc.hbVal
                      /\ beatAt' = IF plc.beat THEN Num(now) ELSE beatAt
                      /\ tickPrev' = plc.hbVal
                      /\ lastCommsOk' = IF announce THEN Bool(plc.ok) ELSE lastCommsOk
                 ELSE UNCHANGED <<lastBeatTs, lastBeatVal, beatAt, tickPrev, lastCommsOk>>
            /\ out' = [op |-> "tick", client |-> 0,
                       events |-> <<>>,
                       diffed |-> TRUE, updates |-> updates, patchTo |-> patchTo,
                       evaluated |-> reachComms,
                       beat |-> reachComms /\ plc.beat,
                       ok |-> reachComms /\ plc.ok,
                       commsTo |-> commsTo,
                       failed |-> (IF doPatch THEN Thrown(failPatch) ELSE {})
                                  \cup (IF doComms THEN Thrown(failComms) ELSE {})]
  /\ pollTimer' = Swallow(pollTimer, threw)
  /\ UNCHANGED <<config, req, timers, registry, settings, data, now, sseClients>>

\* ------------------------------------------------------- stream handler
\* A deviating handler that writes plc-comms before the initial patch; C3
\* must tell it from the program's.
JoinEventsCommsFirst(dataOk, nInitial, commsDone) ==
  <<"hello">>
    \o (IF commsDone THEN <<"plc-comms">> ELSE <<>>)
    \o (IF dataOk /\ nInitial > 0 THEN <<"patch">> ELSE <<>>)

\* The events the handler writes to the new response, in order: hello, the
\* initial patch if (initial.length), then plc-comms.
JoinEvents(dataOk, nInitial, commsDone) ==
  <<"hello">>
    \o (IF dataOk /\ nInitial > 0 THEN <<"patch">> ELSE <<>>)
    \o (IF commsDone THEN <<"plc-comms">> ELSE <<>>)

\* startPolling: if (pollTimer) return; pollTimer = setInterval(...)
StartPolling(timer) == IF timer THEN timer ELSE TRUE

\* A deviating startPolling without its guard; C16 must tell it from the
\* program's.
StartedAlways(timer) == 1

\* The number of intervals one call of startPolling creates.
Started(timer) == IF timer THEN 0 ELSE 1

\* GET /hmi-data for a new response object.
\*   throwAt : "data" when getAllData() throws, "comms" when a query inside
\*             computePlcCommsState throws, "none" otherwise
Join(throwAt) ==
  LET c == Len(sseClients) + 1
      dataOk == throwAt # "data"
      initial == BuildSnapshot(data, registry)
      patch == [i \in 1..Len(initial) |->
                  [tagId |-> initial[i].tagId, value |-> initial[i].value,
                   ts |-> Coalesce(initial[i].ts, Num(now))]]
      doPatch == dataOk /\ Len(initial) > 0
      doComms == dataOk /\ throwAt # "comms"
      plc == ComputePlcCommsState
  IN
  /\ Len(sseClients) < MaxClients
  /\ IF doComms
       THEN /\ lastBeatTs' = plc.beatTs
            /\ lastBeatVal' = plc.hbVal
            /\ beatAt' = IF plc.beat THEN Num(now) ELSE beatAt
       ELSE UNCHANGED <<lastBeatTs, lastBeatVal, beatAt>>
  /\ sseClients' = Append(sseClients, c)
  /\ pollTimer' = StartPolling(pollTimer)
  /\ timers' = timers + Started(pollTimer)
  /\ out' = [Quiet EXCEPT !.op = "join", !.client = c,
                          !.diffed = dataOk,
                          !.events = JoinEvents(dataOk, Len(initial), doComms),
                          !.updates = IF doPatch THEN patch ELSE <<>>,
                          !.patchTo = IF doPatch THEN {c} ELSE {},
                          !.evaluated = doComms,
                          !.beat = doComms /\ plc.beat,
                          !.ok = doComms /\ plc.ok,
                          !.commsTo = IF doComms THEN {c} ELSE {}]
  /\ UNCHANGED <<config, registry, settings, data, now, lastSent, lastCommsOk,
                 lastBcast, tickPrev>>

\* A deviating close handler that leaves the Set alone; C14 must tell it
\* from the program's.
DeleteNothing(clients, c) == clients

\* sseClients.delete(res): the responses after position c move up one
\* position.
Delete(clients, c) == [i \in 1..(Len(clients) - 1) |-> i]

\* req.on('close')
Close(c) ==
  /\ c \in Range(sseClients)
  /\ sseClients' = Delete(sseClients, c)
  /\ out' = [Quiet EXCEPT !.op = "close", !.client = c]
  /\ UNCHANGED <<config, req, timers, registry, settings, data, now, lastSent, pollTimer, lastBeatTs,
                 lastBeatVal, lastCommsOk, lastBcast,
                 beatAt, tickPrev>>

\* A deviating keepalive loop without the per-client try/catch: the first
\* throw ends the loop; C32 must tell it from the program's.
HeartbeatsUntil(clients, failing) ==
  {clients[i] : i \in {j \in 1..Len(clients) : \A k \in 1..j : clients[k] \notin failing}}

\* for (const c of sseClients) { try { sseWrite(c, 'heartbeat', ...) } catch {} }:
\* the clients the heartbeat is written to.
Heartbeats(clients, failing) == Range(clients) \ failing

\* The 3 s keepalive interval: every client is written to inside its own
\* try/catch; failing is the set of clients whose write throws.
Keepalive(failing) ==
  /\ failing \subseteq Range(sseClients)
  /\ out' = [Quiet EXCEPT !.op = "keepalive",
                          !.commsTo = Heartbeats(sseClients, failing),
                          !.failed = failing]
  /\ UNCHANGED <<peers, config, view, req, timers, registry, settings, data, now, sseClients, lastSent, pollTimer,
                 lastBeatTs, lastBeatVal, lastCommsOk,
                 lastBcast, beatAt, tickPrev>>

\* ------------------------------------------------------------ environment
\* The data source changes the value of one tag.
SourceChange(t, v) ==
  /\ v # data[t]
  /\ data' = [data EXCEPT ![t] = v]
  /\ out' = Quiet
  /\ UNCHANGED <<peers, config, view, req, timers, registry, settings, now, sseClients, lastSent, pollTimer,
                 lastBeatTs, lastBeatVal, lastCommsOk,
                 lastBcast, beatAt, tickPrev>>

\* Time passes, to the next instant at which the model lets a handler run:
\* the instants lie one millisecond and one timeout window apart.
Instants == {0, 1, HEARTBEAT_TIMEOUT_MS, HEARTBEAT_TIMEOUT_MS + 1}
AdvanceClock(t) ==
  /\ t \in Instants
  /\ t > now
  /\ now' = t
  /\ out' = Quiet
  /\ UNCHANGED <<peers, config, view, req, timers, registry, settings, data, sseClients, lastSent, pollTimer,
                 lastBeatTs, lastBeatVal, lastCommsOk,
                 lastBcast, beatAt, tickPrev>>

Program ==
  \/ \E th \in {"none", "data", "comms"}, fp, fc \in 0..MaxClients :
       /\ fp <= Len(sseClients) /\ fc <= Len(sseClients)
       /\ Tick(th, fp, fc) /\ UNCHANGED <<view, peers>>
  \/ \E th \in {"none", "data", "comms"} : Join(th) /\ UNCHANGED <<req, view, peers>>
  \/ \E c \in Clients : Close(c) /\ UNCHANGED <<view, peers>>
  \/ \E f \in SUBSET Clients : Keepalive(f)

\* The stream and the diff poller at one instant, over every registry.
InitDiff == Init /\ settings = ""
NextDiff == Program \/ \E i \in 1..Len(registry), v \in TagVals : SourceChange(registry[i], v)
SpecDiff == InitDiff /\ [][NextDiff]_vars

\* The poller over a source whose entry for the followed tag is a raw value
\* or a { value, ts } object, every write succeeding.
StampVals ==
  { Absent, Num(1), Obj(Num(1), Num(5)), Obj(Num(1), Num(9)), Obj(Num(1), Null),
    Obj(Str(1), Num(5)), Obj(Absent, Num(9)) }
InitStamp == Init /\ registry = <<SPEED_TAG, MODE_TAG>> /\ settings = ""
NextStamp ==
  \/ Tick("none", 0, 0) /\ UNCHANGED <<view, peers>>
  \/ Join("none") /\ UNCHANGED <<req, view, peers>>
  \/ \E c \in Clients : Close(c) /\ UNCHANGED <<view, peers>>
  \/ \E v \in StampVals : SourceChange(PROBE_TAG, v)
SpecStamp == InitStamp /\ [][NextStamp]_vars

\* The poller with a tag of the registry and the default beat tag both
\* changing, at one instant.
InitPoll == Init /\ registry = <<SPEED_TAG, MODE_TAG>> /\ settings = ""
NextPoll ==
  \/ Program
  \/ \E v \in TagVals : SourceChange(PROBE_TAG, v)
  \/ \E v \in BeatVals : SourceChange(HbTag(settings), v)
SpecPoll == InitPoll /\ [][NextPoll]_vars

\* The comms detector over time, for every beat tag classification.
InitBeat == Init /\ registry = <<>>
NextBeat ==
  \/ Program
  \/ \E v \in BeatVals : SourceChange(HbTag(settings), v)
  \/ \E t \in Instants : AdvanceClock(t)
SpecBeat == InitBeat /\ [][NextBeat]_vars

\* ---------------------------------------------------------- client views
\* What the responses have been sent.  The actions Tick, Join and Close leave
\* view to the specification that runs them: it is followed only where a
\* property speaks of it.
TagIn(updates, t) == \E i \in 1..Len(updates) : updates[i].tagId = t
UpdateOf(updates, t) == updates[CHOOSE i \in 1..Len(updates) : updates[i].tagId = t].value
\* sseWrite(c, 'patch', { updates }) and sseWrite(c, 'plc-comms', plc) of the
\* step just taken, as seen by response c.
Seen(prev, c) ==
  [value |-> IF c \in out'.patchTo /\ TagIn(out'.updates, PROBE_TAG)
               THEN UpdateOf(out'.updates, PROBE_TAG) ELSE prev.value,
   ok |-> IF c \in out'.commsTo THEN Bool(out'.ok) ELSE prev.ok]
ViewTick ==
  /\ view' = [i \in 1..Len(view) |-> Seen(view[i], sseClients[i])]
  /\ UNCHANGED peers
ViewJoin ==
  /\ view' = Append(view, Seen([value |-> Undefined, ok |-> Undefined], out'.client))
  /\ UNCHANGED peers
ViewClose(c) ==
  /\ view' = SubSeq(view, 1, c - 1) \o SubSeq(view, c + 1, Len(view))
  /\ UNCHANGED peers

\* The stream and the poller with every write succeeding and every query of
\* the source answering, the source changing the followed tag: at one
\* instant, and over time for the default beat tag.
InitView == Init /\ registry = <<SPEED_TAG, MODE_TAG>> /\ settings = ""
NextView ==
  \/ Tick("none", 0, 0) /\ ViewTick
  \/ Join("none") /\ ViewJoin /\ UNCHANGED req
  \/ \E c \in Clients : Close(c) /\ ViewClose(c)
  \/ \E v \in TagVals : SourceChange(PROBE_TAG, v)
SpecView == InitView /\ [][NextView]_vars

InitViewBeat == Init /\ registry = <<>> /\ settings = ""
NextViewBeat ==
  \/ Tick("none", 0, 0) /\ ViewTick
  \/ Join("none") /\ ViewJoin /\ UNCHANGED req
  \/ \E c \in Clients : Close(c) /\ ViewClose(c)
  \/ \E v \in BeatVals : SourceChange(HbTag(settings), v)
  \/ \E t \in Instants : AdvanceClock(t)
SpecViewBeat == InitViewBeat /\ [][NextViewBeat]_vars

\* -------------------------------------------------------------- requests
Routes == {"/", "/status", "/hmi-structure", "/hmi-data", "/branding/logo"}
\* The Authorization header of a request: none, one of another scheme, a
\* bearer token verifyInternal rejects, a bearer token it accepts.
Tokens == {"none", "basic", "forged", "valid"}
\* auth.match(/^Bearer\s+(.+)$/i)
BearerMatch(token) == token \in {"forged", "valid"}
\* verifyInternal(token) returns claims (it throws otherwise)
VerifyInternal(token) == token = "valid"

\* A deviating middleware that does not verify the bearer token; C13 must
\* tell it from the program's.
MiddlewareUnverified(token) == IF BearerMatch(token) THEN "next" ELSE "401"

\* app.use((req, res, next) => ...), registered before every route.
Middleware(token) ==
  IF ~BearerMatch(token) THEN "401"
  ELSE IF ~VerifyInternal(token) THEN "401"
  ELSE "next"

\* res.status(401).json(...)
Reject ==
  /\ out' = [Quiet EXCEPT !.op = "401"]
  /\ UNCHANGED <<peers, config, view, timers, registry, settings, data, now, sseClients, lastSent,
                 pollTimer, lastBeatTs, lastBeatVal, lastCommsOk,
                 lastBcast, beatAt, tickPrev>>

\* The handlers of /, /status, /hmi-structure and /branding/logo: they read
\* the registry, the source and the size of the client set and answer.
Query(route) ==
  /\ route \in Routes \ {"/hmi-data"}
  /\ out' = [Quiet EXCEPT !.op = route,
                          !.updates = IF route = "/hmi-structure"
                                        THEN BuildSnapshot(data, registry) ELSE <<>>]
  /\ UNCHANGED <<peers, config, view, timers, registry, settings, data, now, sseClients, lastSent,
                 pollTimer, lastBeatTs, lastBeatVal, lastCommsOk,
                 lastBcast, beatAt, tickPrev>>

\* One HTTP request through the middleware to its route.
Request(route, token, throwAt) ==
  /\ req' = [route |-> route, token |-> token]
  /\ IF Middleware(token) = "401" THEN throwAt = "none" /\ Reject
     ELSE IF route = "/hmi-data" THEN Join(throwAt) /\ UNCHANGED <<view, peers>>
     ELSE throwAt = "none" /\ Query(route)

\* The engine behind its auth gate, at one instant.
InitHttp == Init /\ registry = <<>> /\ settings = ""
NextHttp ==
  \/ \E r \in Routes, t \in Tokens, th \in {"none", "data", "comms"} :
       Request(r, t, th)
  \/ \E th \in {"none", "data", "comms"}, fp, fc \in 0..MaxClients :
       /\ fp <= Len(sseClients) /\ fc <= Len(sseClients)
       /\ Tick(th, fp, fc) /\ UNCHANGED <<view, peers>>
  \/ \E c \in Clients : Close(c) /\ UNCHANGED <<view, peers>>
  \/ \E f \in SUBSET Clients : Keepalive(f)
  \/ \E v \in BeatVals : SourceChange(HbTag(settings), v)
SpecHttp == InitHttp /\ [][NextHttp]_vars

\* --------------------------------------------------------- source shapes
\* What a property of an object-map source can hold.
MapVals ==
  { Absent, Undefined, Null, Num(1), Obj(Num(1), Num(7)), Obj(Num(1), Absent),
    Obj(Absent, Num(7)), Obj(Null, Null), Obj(Absent, Absent) }
MapSources ==
  {[t \in AllTags |-> IF t = SPEED_TAG THEN a ELSE IF t = MODE_TAG THEN b ELSE Absent]
     : a \in MapVals, b \in MapVals}
\* The rows of an array source: null, a number, and objects that name a tag
\* under one of the four keys and hold a value and a timestamp under one of
\* their names, or neither.
KeyedRows ==
  UNION {{[NoRow EXCEPT !.tagId = Name(t)], [NoRow EXCEPT !.name = Name(t)],
          [NoRow EXCEPT !.tag = Name(t), !.tagId = Null], [NoRow EXCEPT !.id = Name(t)]}
           : t \in {SPEED_TAG, MODE_TAG}}
Rows ==
  {Null, Num(5), NoRow}
  \cup KeyedRows
  \cup {[r EXCEPT !.value = Num(1), !.ts = Num(7)] : r \in KeyedRows}
  \cup {[r EXCEPT !.val = Str(1), !.value = Null, !.timestamp = Num(7)] : r \in KeyedRows}
  \cup {[r EXCEPT !.v = Num(1)] : r \in KeyedRows}
ArraySources == {[rows |-> q] : q \in UNION {[1..n -> Rows] : n \in 0..MaxRows}}
Sources == {Null} \cup MapSources \cup ArraySources

\* The snapshot readers over every shape of the source.
InitRead == Boot /\ data \in Sources /\ registry = <<SPEED_TAG, MODE_TAG>> /\ settings = ""
NextRead == \E r \in Routes \ {"/hmi-data"} : Query(r) /\ UNCHANGED req
SpecRead == InitRead /\ [][NextRead]_vars

\* The poll loop over time: setInterval keeps calling the callback, so a
\* tick that is continuously possible eventually runs.
TickStep ==
  \E th \in {"none", "data", "comms"}, fp, fc \in 0..MaxClients :
    /\ fp <= Len(sseClients) /\ fc <= Len(sseClients)
    /\ Tick(th, fp, fc) /\ UNCHANGED <<view, peers>>
InitLive == InitBeat /\ settings = ""
SpecLive == InitLive /\ [][NextBeat]_vars /\ WF_vars(TickStep)

\* ============================================================= registry
\* Strings of the configuration are sequences of atoms: a digit, the
\* placeholder "#", a blank, or a piece of text without digits, "#" or
\* blanks at its ends.
Digits == {"1", "2", "3"}
RECURSIVE Concat(_)
Concat(ss) == IF ss = <<>> THEN <<>> ELSE Head(ss) \o Concat(Tail(ss))
Reverse(q) == [i \in 1..Len(q) |-> q[Len(q) + 1 - i]]
\* The length of the longest prefix of c made of digits.
DigitRun(c) ==
  LET ks == {k \in 0..Len(c) : \A j \in 1..k : c[j] \in Digits}
  IN CHOOSE k \in ks : \A m \in ks : m <= k

\* ------------------------------------------------------ template resolver
NoMatch == [ok |-> FALSE, caps |-> <<>>]
\* concrete.match(new RegExp('^' + escReg(t).replace(/#/g, '([0-9]+)') + '$')):
\* every atom but "#" is literal, each "#" is a greedy group of digits.
RECURSIVE MatchFrom(_, _)
MatchFrom(c, t) ==
  IF t = <<>> THEN (IF c = <<>> THEN [ok |-> TRUE, caps |-> <<>>] ELSE NoMatch)
  ELSE IF Head(t) = "#"
    THEN LET good == {k \in 1..DigitRun(c) :
                        MatchFrom(SubSeq(c, k + 1, Len(c)), Tail(t)).ok}
         IN IF good = {} THEN NoMatch
            ELSE LET k == CHOOSE g \in good : \A m \in good : m <= g
                     rest == MatchFrom(SubSeq(c, k + 1, Len(c)), Tail(t))
                 IN [ok |-> TRUE, caps |-> <<SubSeq(c, 1, k)>> \o rest.caps]
  ELSE IF c # <<>> /\ Head(c) = Head(t) THEN MatchFrom(Tail(c), Tail(t))
  ELSE NoMatch

\* captureNumbers: m ? m.slice(1) : null
CaptureNumbers(concrete, templateWithHashes) ==
  MatchFrom(concrete, templateWithHashes)

\* String(str).replace(/#/g, () => (caps[i++] ?? '')), i counting from 1.
RECURSIVE Replace(_, _, _)
Replace(str, caps, i) ==
  IF str = <<>> THEN <<>>
  ELSE IF Head(str) = "#"
    THEN (IF i <= Len(caps) THEN caps[i] ELSE <<>>) \o Replace(Tail(str), caps, i + 1)
  ELSE <<Head(str)>> \o Replace(Tail(str), caps, i)

\* A deviating substitution that consumes the captures right to left; C19
\* must tell it from the program's.
ApplyCapturesReversed(str, caps) ==
  IF str = <<>> \/ Len(caps) = 0 THEN str ELSE Replace(str, Reverse(caps), 1)

\* applyCaptures: if (!str || !Array.isArray(caps) || caps.length === 0)
\* return str
ApplyCaptures(str, caps) ==
  IF str = <<>> \/ Len(caps) = 0 THEN str ELSE Replace(str, caps, 1)

\* A field that is not a string (a template without description).
NoString == <<"(no string)">>

\* materializeTemplate: { ...tpl, tagId: concreteTag } with label and
\* description, when strings, run through applyCaptures(., caps || []).
MaterializeTemplate(tpl, concreteTag) ==
  LET m == CaptureNumbers(concreteTag, tpl.tagId)
      caps == IF m.ok THEN m.caps ELSE <<>>
      apply(f) == IF f = NoString THEN f ELSE ApplyCaptures(f, caps)
  IN [tpl EXCEPT !.tagId = concreteTag,
                 !.label = apply(tpl.label),
                 !.description = apply(tpl.description)]

\* ------------------------------------------------------- layout utilities
\* TAG_REGEX = /^(TOHMI_|FRMHMI_|ALARM_|WARNING_|Feedpoint\d+_|Recipe_Feedpoint\d+_)/
TAG_REGEX(id) ==
  /\ id # <<>>
  /\ \/ id[1] \in {"TOHMI_", "FRMHMI_", "ALARM_", "WARNING_"}
     \/ /\ id[1] \in {"Feedpoint", "Recipe_Feedpoint"}
        /\ LET run == DigitRun(Tail(id))
           IN /\ run >= 1 /\ Len(id) >= run + 2
              /\ id[run + 2] \in {"_", "_projectName"}

\* String.prototype.trim over the atoms.
RECURSIVE TrimStart(_)
TrimStart(str) ==
  IF str # <<>> /\ Head(str) = " " THEN TrimStart(Tail(str)) ELSE str
Trim(str) == Reverse(TrimStart(Reverse(TrimStart(str))))

\* The values of the layout: a string, an array, an object.  An object is its
\* tagId (the empty string when it has none), its override and the values
\* under its other keys, in Object.entries order, with the key of each.
NoOverride == [keys |-> {}, label |-> <<>>, widget |-> "", tagId |-> <<>>]
StrV(str) ==
  [k |-> "str", s |-> str, override |-> NoOverride, keys |-> <<>>, kids |-> <<>>]
ArrV(vals) ==
  [k |-> "arr", s |-> <<>>, override |-> NoOverride, keys |-> <<>>, kids |-> vals]
ObjK(tagId, override, keys, vals) ==
  [k |-> "obj", s |-> tagId, override |-> override, keys |-> keys, kids |-> vals]
ObjV(tagId, override, vals) ==
  ObjK(tagId, override, [i \in 1..Len(vals) |-> "children"], vals)

\* if (k === 'override' || k === 'component' || k === 'key' || k === 'title'
\*     || k === 'id') continue;
SKIP_KEYS == {"override", "component", "key", "title", "id"}
RECURSIVE Unskipped(_, _)
Unskipped(keys, vals) ==
  IF vals = <<>> THEN <<>>
  ELSE (IF Head(keys) \in SKIP_KEYS THEN <<>> ELSE <<Head(vals)>>)
         \o Unskipped(Tail(keys), Tail(vals))
\* The values scan goes on to from an object.
Entries(val) == Unskipped(val.keys, val.kids)

\* A deviating add, keeping a tag at the place of its last occurrence; C17
\* must tell it from the program's.
AddLast(found, tagId, override) ==
  LET id == Trim(tagId)
  IN IF id = <<>> \/ ~TAG_REGEX(id) THEN found
     ELSE Append(SelectSeq(found, LAMBDA e : e.tagId # id),
                 [tagId |-> id, override |-> override])

\* add(tagId, override) of collectConcreteTags; seen is the set of the tagIds
\* of found.
Add(found, tagId, override) ==
  LET id == Trim(tagId)
  IN IF id = <<>> \/ ~TAG_REGEX(id) \/ id \in {found[i].tagId : i \in 1..Len(found)}
       THEN found
       ELSE Append(found, [tagId |-> id, override |-> override])

RECURSIVE Scan(_, _), ScanEach(_, _)
\* A deviating scan that takes a reference object for a leaf: an object with
\* a tagId is added and its other fields are left alone; C34 must tell it from
\* the program's.
ScanLeaf(found, val) ==
  CASE val.k = "str" ->
         IF val.s # <<>> /\ Head(val.s) = "key_" THEN found
         ELSE Add(found, val.s, NoOverride)
    [] val.k = "arr" -> ScanEach(found, val.kids)
    [] val.k = "obj" ->
         IF val.s # <<>> THEN Add(found, val.s, val.override)
         ELSE ScanEach(found, Entries(val))
\* scan(val) of collectConcreteTags.
Scan(found, val) ==
  CASE val.k = "str" ->
         IF val.s # <<>> /\ Head(val.s) = "key_" THEN found
         ELSE Add(found, val.s, NoOverride)
    [] val.k = "arr" -> ScanEach(found, val.kids)
    [] val.k = "obj" -> ScanEach(Add(found, val.s, val.override), Entries(val))
ScanEach(found, vals) ==
  IF vals = <<>> THEN found ELSE ScanEach(Scan(found, Head(vals)), Tail(vals))

\* Array.isArray(s.items) ? s.items : (Array.isArray(s.widgets) ? s.widgets : [])
\* (a property read on a number gives undefined).
SectionItems(sec) ==
  IF "hasItems" \notin DOMAIN sec THEN <<>>
  ELSE IF sec.hasItems THEN sec.items ELSE IF sec.hasWidgets THEN sec.widgets ELSE <<>>

\* Array.isArray(p.sections) ? p.sections : []
PageSections(p) == IF "sections" \in DOMAIN p THEN p.sections ELSE <<>>

\* p.sections and s.items are read on every entry the loops meet: on a null
\* entry the read throws a TypeError, which nothing in collectConcreteTags,
\* buildRegistry or attach catches.
CollectThrows(lay) ==
  \E i \in 1..Len(lay.pages) :
    \/ lay.pages[i] = Null
    \/ \E j \in 1..Len(PageSections(lay.pages[i])) : PageSections(lay.pages[i])[j] = Null

\* collectConcreteTags: pages, then sections, then items.
RECURSIVE ScanSections(_, _), ScanPages(_, _)
ScanSections(found, sections) ==
  IF sections = <<>> THEN found
  ELSE ScanSections(ScanEach(found, SectionItems(Head(sections))), Tail(sections))
ScanPages(found, pages) ==
  IF pages = <<>> THEN found
  ELSE ScanPages(ScanSections(found, PageSections(Head(pages))), Tail(pages))
CollectConcreteTags(lay) == ScanPages(<<>>, lay.pages)

\* ---------------------------------------------------------- buildRegistry
\* A deviating choice, of the last matching template; C18 must tell it from
\* the program's.
LastMatch(tagId, table) ==
  LET ms == {i \in 1..Len(table) : CaptureNumbers(tagId, table[i].tagId).ok}
  IN IF ms = {} THEN 0 ELSE CHOOSE i \in ms : \A j \in ms : j <= i

\* for (const [tplId, tpl] of widgetsMap) if (captureNumbers(tagId, tplId))
\* { chosen = tpl; break; }  -- the position of chosen, 0 for null.
FirstMatch(tagId, table) ==
  LET ms == {i \in 1..Len(table) : CaptureNumbers(tagId, table[i].tagId).ok}
  IN IF ms = {} THEN 0 ELSE CHOOSE i \in ms : \A j \in ms : i <= j

\* A deviating fallback without a label; C21 must tell it from the
\* program's.
FallbackBlank(tagId) ==
  [tagId |-> tagId, label |-> <<>>, description |-> NoString,
   widget |-> "raw", valueType |-> "string"]

\* chosen || { tagId, label: tagId, widget: 'raw', valueType: 'string' }
Fallback(tagId) ==
  [tagId |-> tagId, label |-> tagId, description |-> NoString,
   widget |-> "raw", valueType |-> "string"]

\* override ? ({ ...concreteMeta, ...override }) : concreteMeta
Merge(concreteMeta, override) ==
  [concreteMeta EXCEPT
     !.label = IF "label" \in override.keys THEN override.label ELSE @,
     !.widget = IF "widget" \in override.keys THEN override.widget ELSE @,
     !.tagId = IF "tagId" \in override.keys THEN override.tagId ELSE @]

MetaFor(entry, table) ==
  LET i == FirstMatch(entry.tagId, table)
      base == IF i # 0 THEN table[i] ELSE Fallback(entry.tagId)
  IN Merge(MaterializeTemplate(base, entry.tagId), entry.override)

\* A deviating builder that keys the Map by the id of the chosen template;
\* C25 must tell it from the program's.
RECURSIVE BuildFromByTemplate(_, _, _)
BuildFromByTemplate(entries, table, acc) ==
  IF entries = <<>> THEN acc
  ELSE LET e == Head(entries)
           i == FirstMatch(e.tagId, table)
           key == IF i # 0 THEN table[i].tagId ELSE e.tagId
           has == key \in {acc.metaByTag[j].key : j \in 1..Len(acc.metaByTag)}
           next == IF has THEN acc
                   ELSE [tags |-> Append(acc.tags, e.tagId),
                         metaByTag |-> Append(acc.metaByTag,
                                              [key |-> key, meta |-> MetaFor(e, table)])]
       IN BuildFromByTemplate(Tail(entries), table, next)

\* buildRegistry: tags and metaByTag (a Map, in insertion order).
RECURSIVE BuildFrom(_, _, _)
BuildFrom(entries, table, acc) ==
  IF entries = <<>> THEN acc
  ELSE LET e == Head(entries)
           has == e.tagId \in {acc.metaByTag[i].key : i \in 1..Len(acc.metaByTag)}
           next == IF has THEN acc
                   ELSE [tags |-> Append(acc.tags, e.tagId),
                         metaByTag |-> Append(acc.metaByTag,
                                              [key |-> e.tagId, meta |-> MetaFor(e, table)])]
       IN BuildFrom(Tail(entries), table, next)
BuildRegistry(lay, table) ==
  BuildFrom(CollectConcreteTags(lay), table, [tags |-> <<>>, metaByTag |-> <<>>])


\* ------------------------------------------------- configuration at hand
\* Concrete tags, a translation key and a padded reference.
TAG_A == <<"TOHMI_", "PE", "1">>
TAG_B == <<"TOHMI_", "PE", "1", "_", "2">>
TAG_R == <<"Recipe_Feedpoint", "3", "_projectName">>
KEY_S == <<"key_", "PE">>
PADDED_A == <<" ">> \o TAG_A \o <<" ">>
OVERRIDE_A == [NoOverride EXCEPT !.keys = {"label"}, !.label = <<"Entry">>]
\* An override object that has a tagId of its own.
OVERRIDE_ID == [NoOverride EXCEPT !.keys = {"tagId"}, !.tagId = TAG_B]

\* What an item of a section can be.
Items ==
  { StrV(TAG_A), StrV(TAG_B), StrV(TAG_R), StrV(PADDED_A), StrV(KEY_S),
    ArrV(<<StrV(TAG_B), StrV(TAG_A)>>),
    ObjV(TAG_A, OVERRIDE_A, <<StrV(TAG_A), ArrV(<<StrV(TAG_R)>>)>>),
    ObjV(<<>>, NoOverride, <<StrV(TAG_B)>>),
    ObjV(TAG_R, OVERRIDE_ID, <<>>),
    ObjK(TAG_B, NoOverride, <<"title", "cells", "id">>,
         <<StrV(TAG_R), ObjV(<<>>, NoOverride, <<StrV(TAG_A)>>),
           ObjV(TAG_R, NoOverride, <<>>)>>) }
ItemSeqs == UNION {[1..n -> Items] : n \in 0..MaxItems}

Section(xs) == [hasItems |-> TRUE, items |-> xs, hasWidgets |-> FALSE, widgets |-> <<>>]
Widgets(xs) == [hasItems |-> FALSE, items |-> <<>>, hasWidgets |-> TRUE, widgets |-> xs]
\* The items in one section, one section each (under items and widgets in
\* turn), or one page each.
Layouts ==
  {[pages |-> <<[sections |-> <<Section(xs)>>]>>] : xs \in ItemSeqs}
  \cup {[pages |-> <<[sections |->
                        [i \in 1..Len(xs) |->
                           IF i % 2 = 1 THEN Section(<<xs[i]>>) ELSE Widgets(<<xs[i]>>)]]>>]
          : xs \in ItemSeqs}
  \cup {[pages |-> [i \in 1..Len(xs) |-> [sections |-> <<Section(<<xs[i]>>)>>]]]
          : xs \in ItemSeqs}

\* Layouts with an entry of pages or of sections that is null or a number.
MalformedLayouts ==
  { [pages |-> <<Null>>],
    [pages |-> <<Num(5)>>],
    [pages |-> <<Num(5), [sections |-> <<Section(<<StrV(TAG_B)>>)>>]>>],
    [pages |-> <<[sections |-> <<Null>>]>>],
    [pages |-> <<[sections |-> <<Num(5), Section(<<StrV(TAG_A)>>)>>]>>],
    [pages |-> <<[sections |-> <<Section(<<StrV(TAG_A)>>), Null>>]>>] }

\* The layout file: missing, not JSON, JSON that is not an object (a number,
\* a string, null), an object without a pages array, or an object.
NoPages == [pages |-> <<>>]
LayoutFiles ==
  {[k |-> x, json |-> NoPages] : x \in {"missing", "unparsable", "scalar", "no pages"}}
  \cup {[k |-> "object", json |-> lay] : lay \in Layouts \cup MalformedLayouts}
\* loadLayoutJSON: json && typeof json === 'object' ? json : { pages: [] },
\* and { pages: [] } when reading or parsing throws.  An object without a
\* pages array is returned as it is; collectConcreteTags reads its pages as
\* [].
LoadLayoutJSON(file) == IF file.k = "object" THEN file.json ELSE NoPages

Tpl(tagId, label, description, widget) ==
  [tagId |-> tagId, label |-> label, description |-> description,
   widget |-> widget, valueType |-> "number"]
TPL_PE == Tpl(<<"TOHMI_", "PE", "#">>, <<"Photoeye", " ", "#">>, NoString, "led")
TPL_PE1 == Tpl(TAG_A, <<"Eye", " ", "#">>, <<"first">>, "lamp")
TPL_PAIR == Tpl(<<"TOHMI_", "PE", "#", "_", "#">>,
                <<"Eye", " ", "#", "/", "#", "/", "#">>, <<"#", ".", "#">>, "pair")
TPL_PROJECT == Tpl(<<"Recipe_Feedpoint", "#", "_projectName">>,
                   <<"Feedpoint ", "#", " project">>, <<"name">>, "text")
\* The template tables, in Map iteration order.
Tables ==
  { <<>>, <<TPL_PE, TPL_PE1>>, <<TPL_PE1, TPL_PE>>,
    <<TPL_PAIR, TPL_PROJECT, TPL_PE>>, <<TPL_PROJECT, TPL_PE>> }

\* attach, step 1: const widgetsMap = loadWidgetsNDJSON(); const layout =
\* loadLayoutJSON()
LoadConfig(lay, table) ==
  /\ built.stage = "start"
  /\ layout' = lay
  /\ widgetsMap' = table
  /\ built' = [built EXCEPT !.stage = "loaded"]
  /\ out' = Quiet
  /\ UNCHANGED <<peers, view, req, timers, registry, settings, data, now, sseClients,
                 lastSent, pollTimer, lastBeatTs, lastBeatVal, lastCommsOk,
                 lastBcast, beatAt, tickPrev>>

\* attach: const registry = buildRegistry(layout, widgetsMap); when it throws,
\* attach is left before any route is registered.
Build ==
  /\ built.stage = "loaded"
  /\ built' = IF CollectThrows(layout)
                THEN [stage |-> "threw", tags |-> <<>>, metaByTag |-> <<>>]
                ELSE [stage |-> "built",
                      tags |-> BuildRegistry(layout, widgetsMap).tags,
                      metaByTag |-> BuildRegistry(layout, widgetsMap).metaByTag]
  /\ out' = Quiet
  /\ UNCHANGED <<peers, view, layout, widgetsMap, req, timers, registry, settings, data,
                 now, sseClients, lastSent, pollTimer, lastBeatTs,
                 lastBeatVal, lastCommsOk, lastBcast, beatAt, tickPrev>>

\* The registry builder over the layouts and template tables at hand.
InitRegistry == Init /\ registry = <<>> /\ settings = ""
NextRegistry ==
  \/ \E file \in LayoutFiles, table \in Tables : LoadConfig(LoadLayoutJSON(file), table)
  \/ Build
SpecRegistry == InitRegistry /\ [][NextRegistry]_vars

\* The whole of attach and what it registers: the configuration is loaded
\* and the registry built before any route exists, then requests, ticks,
\* closes and keepalives run in any order.
ServeLayouts ==
  { NoPages,
    [pages |-> <<[sections |-> <<Section(<<StrV(TAG_B), StrV(PADDED_A)>>)>>]>>],
    [pages |-> <<[sections |-> <<Widgets(<<ArrV(<<StrV(TAG_B), StrV(TAG_A)>>)>>)>>],
                 [sections |-> <<Section(<<StrV(TAG_R), StrV(TAG_B)>>)>>]>>],
    [pages |-> <<[sections |-> <<Null>>]>>] }
InitServe == Init /\ registry = <<>> /\ settings = ""
NextServe ==
  \/ \E lay \in ServeLayouts, table \in Tables : LoadConfig(lay, table)
  \/ Build
  \/ /\ built.stage = "built"
     /\ \E r \in Routes, th \in {"none", "data", "comms"} : Request(r, "valid", th)
  \/ \E th \in {"none", "data", "comms"}, fp, fc \in 0..MaxClients :
       /\ fp <= Len(sseClients) /\ fc <= Len(sseClients)
       /\ Tick(th, fp, fc) /\ UNCHANGED <<view, peers>>
  \/ \E c \in Clients : Close(c) /\ UNCHANGED <<view, peers>>
  \/ \E f \in SUBSET Clients : Keepalive(f)
SpecServe == InitServe /\ [][NextServe]_vars

\* ========================================================== ServerConnect
\* ------------------------------------------------------- the /hmi routes
HmiRoutes == {"/hmi/status", "/hmi/structure", "/hmi/data", "/hmi/logo/stream"}
\* The Authorization header of a request of the mobile app: none, or a token.
MobileTokens == {"", "mobile"}
\* The byte chunks of the upstream stream.
Chunks == {"a", "b"}
CONNECTED == ": connected"
ERR_UPSTREAM == "key-sc_upstream_error"
ERR_OPEN == "key-sc_cannot_reach_hmi_live"
Streaming == proxy.route = "/hmi/data"

\* upstream.body.on('data'): res.write(chunk)
OnData(p, chunk) == [p EXCEPT !.written = Append(@, chunk)]
\* upstream.body.on('end'): res.end()
OnEnd(p) == [p EXCEPT !.ended = TRUE]
\* A deviating error handler that writes the error event and leaves the
\* response open; C37 must tell it from the program's.
OnErrorOpen(p) == [p EXCEPT !.written = Append(@, ERR_UPSTREAM)]
\* upstream.body.on('error'): the error event, then res.end()
OnError(p) == [p EXCEPT !.written = Append(@, ERR_UPSTREAM), !.ended = TRUE]

\* A GET on a route of the /hmi router: cors, express.json and i18nMiddleware
\* call next(), the router calls the handler, and the handler calls hmi-live;
\* streamHmiData first writes the opening comment.
PxRequest(route, token) ==
  /\ proxy.upstream \notin {"pending", "open"}
  /\ proxy' = [ProxyIdle EXCEPT !.route = route, !.token = token, !.calls = 1,
                                !.upstream = "pending", !.client = "open",
                                !.written = IF route = "/hmi/data" THEN <<CONNECTED>>
                                            ELSE <<>>]
  /\ UNCHANGED <<core, scan, sim>>
\* The pass-through handlers: the reply of hmi-live, or the error, as JSON
\* (the logo as a stream).
PxReply ==
  /\ ~Streaming /\ proxy.upstream = "pending"
  /\ proxy' = [proxy EXCEPT !.upstream = "ended", !.written = <<"reply">>, !.ended = TRUE]
  /\ UNCHANGED <<core, scan, sim>>
\* await openHmiSse() resolves: the three listeners on the body and the
\* close listener on res are registered.
PxOpened ==
  /\ Streaming /\ proxy.upstream = "pending"
  /\ proxy' = [proxy EXCEPT !.upstream = "open", !.listening = TRUE]
  /\ UNCHANGED <<core, scan, sim>>
\* await openHmiSse() rejects: the catch block.
PxOpenFailed ==
  /\ Streaming /\ proxy.upstream = "pending"
  /\ proxy' = [proxy EXCEPT !.upstream = "failed", !.written = Append(@, ERR_OPEN),
                            !.ended = TRUE]
  /\ UNCHANGED <<core, scan, sim>>
\* A chunk of the upstream body.
PxChunk(chunk) ==
  /\ Streaming /\ proxy.upstream = "open" /\ Len(proxy.arrived) < MaxChunks
  /\ proxy' = [OnData(proxy, chunk) EXCEPT !.arrived = Append(@, chunk)]
  /\ UNCHANGED <<core, scan, sim>>
\* The upstream body ends.
PxEnd ==
  /\ Streaming /\ proxy.upstream = "open"
  /\ proxy' = [OnEnd(proxy) EXCEPT !.upstream = "ended"]
  /\ UNCHANGED <<core, scan, sim>>
\* The upstream body fails.
PxError ==
  /\ Streaming /\ proxy.upstream = "open"
  /\ proxy' = [OnError(proxy) EXCEPT !.upstream = "errored"]
  /\ UNCHANGED <<core, scan, sim>>
\* The client's connection closes and res emits 'close': a listener
\* registered by then calls controller.abort(), on which the body of an open
\* upstream emits 'error'; 'close' is not emitted again for a listener
\* registered later.
PxClientClose ==
  /\ proxy.client = "open"
  /\ proxy' = IF proxy.listening /\ proxy.upstream = "open"
                THEN [OnError(proxy) EXCEPT !.upstream = "aborted", !.client = "closed"]
                ELSE [proxy EXCEPT !.client = "closed"]
  /\ UNCHANGED <<core, scan, sim>>

InitProxy == Init /\ registry = <<>> /\ settings = ""
NextProxy ==
  \/ \E route \in HmiRoutes, token \in MobileTokens : PxRequest(route, token)
  \/ PxReply
  \/ PxOpened
  \/ PxOpenFailed
  \/ \E chunk \in Chunks : PxChunk(chunk)
  \/ PxEnd
  \/ PxError
  \/ PxClientClose
SpecProxy == InitProxy /\ [][NextProxy]_vars

\* ------------------------------------------------------ the peer scanner
Hosts == 1..MaxHosts
\* The queue scanSubnet builds: the addresses in order, but for its own.
Queue(localIp) ==
  LET others == {h \in Hosts : h # localIp}
      Nth[i \in 1..Cardinality(others)] ==
        CHOOSE h \in others : Cardinality({g \in others : g < h}) = i - 1
  IN [i \in 1..Cardinality(others) |-> Nth[i]]
\* A deviating pool with one worker per address; C39 must tell it from the
\* program's.
WorkerCountAll(n) == n
\* Math.min(MAX_CONCURRENCY, queue.length)
WorkerCount(n) == IF MAX_CONCURRENCY < n THEN MAX_CONCURRENCY ELSE n

\* scanSubnet(subnet, localIp) up to await Promise.all(workers): every worker
\* runs to its first await, having shifted one address and started its probe.
ScanStart(localIp) ==
  /\ scan.phase \in {"idle", "returned"}
  /\ LET q == Queue(localIp)
         w == WorkerCount(Len(q))
         first == SubSeq(q, 1, w)
     IN scan' = [ScanIdle EXCEPT !.phase = IF w = 0 THEN "returned" ELSE "running",
                                 !.localIp = localIp,
                                 !.queue = SubSeq(q, w + 1, Len(q)),
                                 !.inflight = Range(first),
                                 !.probed = first]
  /\ UNCHANGED <<core, proxy, sim>>
\* pingServer(ip) settles, with a peer (an OK response whose body was read)
\* or with null (another status, an error, the abort at TIMEOUT_MS): its
\* worker pushes the peer and goes round its loop, on to the next address or
\* to its end; when the last worker ends scanSubnet returns results.
ProbeDone(ip, ok) ==
  /\ scan.phase = "running" /\ ip \in scan.inflight
  /\ LET results == IF ok THEN Append(scan.results, ip) ELSE scan.results
         more == scan.queue # <<>>
         inflight == (scan.inflight \ {ip})
                       \cup (IF more THEN {Head(scan.queue)} ELSE {})
     IN scan' = [scan EXCEPT
                   !.results = results,
                   !.answered = IF ok THEN @ \cup {ip} ELSE @,
                   !.queue = IF more THEN Tail(@) ELSE @,
                   !.probed = IF more THEN Append(@, Head(scan.queue)) ELSE @,
                   !.inflight = inflight,
                   !.phase = IF inflight = {} THEN "returned" ELSE "running",
                   !.returned = IF inflight = {} THEN results ELSE @]
  /\ UNCHANGED <<core, proxy, sim>>
ProbeStep == \E ip \in Hosts, ok \in BOOLEAN : ProbeDone(ip, ok)

InitScan == Init /\ registry = <<>> /\ settings = ""
NextScan ==
  \/ \E localIp \in 0..MaxHosts : ScanStart(localIp)
  \/ \E ip \in Hosts, ok \in BOOLEAN : ProbeDone(ip, ok)
\* The abort timer of pingServer settles every probe.
SpecScan == InitScan /\ [][NextScan]_vars /\ WF_vars(ProbeStep)

\* ========================================================= demo simulator
\* The setInterval callback of startHandshake.  A restart timeout that is due
\* before the tick runs first; one due at the instant of the tick runs before
\* or after it.
SimInterval ==
  /\ sim.timeout # 0
  /\ LET left == IF sim.timeout > 0 THEN sim.timeout - 1 ELSE sim.timeout
     IN IF ~sim.active
          THEN sim' = [sim EXCEPT !.timeout = left]
          ELSE LET hb == sim.hb + 1
                   active == ~(hb > HB_LAST)
               IN sim' = [hb |-> hb, active |-> active,
                          value |-> IF active THEN hb ELSE HB_LAST,
                          timeout |-> IF active THEN left ELSE PAUSE_TICKS]
  /\ UNCHANGED <<core, proxy, scan>>
\* The setTimeout callback: hb = 1; active = true.
SimTimeout ==
  /\ sim.timeout \in {0, 1}
  /\ sim' = [sim EXCEPT !.hb = 1, !.active = TRUE, !.timeout = -1]
  /\ UNCHANGED <<core, proxy, scan>>

InitSim == Init /\ registry = <<>> /\ settings = ""
NextSim == SimInterval \/ SimTimeout
SpecSim == InitSim /\ [][NextSim]_vars

\* ================================================================ claims
ValueOf(t) == IF data[t] = Absent THEN Null ELSE data[t]
\* LastSentState holds, for every registry tag, the value the source holds.
Settled ==
  \A t \in Range(registry) : lastSent[t].has /\ lastSent[t].value = ValueOf(t)

\* C1 (as stated): on every tick that reads the source, a registry tag is in
\* the patch broadcast by the tick if and only if the value read differs from
\* the value most recently broadcast to clients for it.  Stated for PROBE_TAG,
\* for ticks in which no write throws and before which a value of the tag
\* has been broadcast.
C1_Original ==
  [][(/\ out'.op = "tick" /\ out'.diffed /\ out'.failed = {}
      /\ PROBE_TAG \in Range(registry) /\ lastBcast # Undefined)
       => ((out'.patchTo # {} /\ TagIn(out'.updates, PROBE_TAG))
             <=> ValueOf(PROBE_TAG) # lastBcast)]_vars

\* C1 (amended): on every tick that reads the source, a registry tag is in
\* the tick's update batch if and only if LastSentState has no entry for it
\* or the value read differs (!==) from the LastSentState value, which is the
\* value read by the latest such tick whether or not a client was connected;
\* the batch is written as a patch only if it is non-empty and a client is
\* connected.
C1_Batch ==
  (out'.op = "tick" /\ out'.diffed)
    => /\ \A t \in Range(registry) :
            TagIn(out'.updates, t)
              <=> (~lastSent[t].has \/ lastSent[t].value # ValueOf(t))
       /\ \A i \in 1..Len(out'.updates) : out'.updates[i].value = ValueOf(out'.updates[i].tagId)
       /\ out'.patchTo # {} => (Len(out'.updates) > 0 /\ Len(sseClients) > 0)
C1_Recorded == (out.op = "tick" /\ out.diffed) => Settled
C1_Amended == []C1_Recorded /\ [][C1_Batch]_vars
\* A tick broadcasts a patch holding one of the two registry tags.
C1_Witness ==
  out.op = "tick" /\ Len(out.updates) = 1 /\ out.patchTo # {} /\ Len(registry) = 2

\* C2: once a tick has read the source, and for as long as the source keeps
\* returning the same value for every registry tag, no tick broadcasts a
\* patch, whatever joins, disconnects and keepalives happen in between.
C2_StaysSettled == (Settled /\ data' = data) => Settled'
C2_Silent ==
  (Settled /\ out'.op = "tick") => (out'.updates = <<>> /\ out'.patchTo = {})
C2_Idempotent == []C1_Recorded /\ [][C2_StaysSettled /\ C2_Silent]_vars
\* A tick that reads an unchanged source with a client connected.
C2_Witness ==
  /\ out.op = "tick" /\ out.diffed /\ out.updates = <<>>
  /\ Len(registry) > 0 /\ Len(sseClients) > 0

\* C3 (as stated): every client that opens the stream is written hello, an
\* initial patch and an initial comms event, in this order, for any registry
\* (an empty one included).  Stated for joins whose source reads succeed.
C3_Original ==
  (out.op = "join" /\ out.evaluated)
    => out.events = <<"hello", "patch", "plc-comms">>

\* C3 (amended): every client that opens the stream is written hello first,
\* then one initial patch if the registry is not empty and the join-time
\* data read succeeds, then one initial comms event if the join-time reads
\* succeed; all of this is written before the client enters the client set,
\* and ticks and the keepalive write only to members of that set.
C3_Amended ==
  /\ out.op = "join" =>
       /\ out.events =
            <<"hello">>
              \o (IF out.diffed /\ registry # <<>> THEN <<"patch">> ELSE <<>>)
              \o (IF out.evaluated THEN <<"plc-comms">> ELSE <<>>)
       /\ out.evaluated => out.diffed
       /\ out.client = Len(sseClients)
  /\ out.op \in {"tick", "keepalive"} =>
       (out.patchTo \cup out.commsTo \cup out.failed) \subseteq Range(sseClients)
\* A second client joins and is written the three events.
C3_Witness ==
  out.op = "join" /\ out.client = 2 /\ out.events = <<"hello", "patch", "plc-comms">>

\* C4: the initial patch written to a joining client has exactly one entry
\* per registry tag, in registry order, each with the value the source holds
\* at join time (null for a tag the source lacks), whatever LastSentState is.
C4_InitialPatch ==
  (out.op = "join" /\ out.patchTo # {}) =>
     /\ Len(out.updates) = Len(registry)
     /\ \A i \in 1..Len(registry) :
          /\ out.updates[i].tagId = registry[i]
          /\ out.updates[i].value = ValueOf(registry[i])
\* A join whose patch carries a null, while LastSentState holds another
\* value for that tag.
C4_Witness ==
  /\ out.op = "join" /\ out.patchTo # {}
  /\ \E i \in 1..Len(registry) :
       /\ out.updates[i].value = Null
       /\ lastSent[registry[i]].has /\ lastSent[registry[i]].value # Null

\* ------------------------------------------------------- comms detector
HbValue == ReadOne(data, HbTag(settings)).value

\* C5: under heartbeat semantics a tick detects a beat if and only if a
\* previous tick observed a raw value and the value read now differs from
\* it; in particular the first tick never detects a beat.
C5_Claim ==
  [][(out'.op = "tick" /\ out'.evaluated /\ IsHeartbeat(HbTag(settings)))
       => (out'.beat <=> (tickPrev # Undefined /\ HbValue # tickPrev))]_vars

\* C6: under handshake semantics a tick detects a beat exactly when its
\* numeric value differs from the value the previous tick read.
C6_Claim ==
  [][(/\ out'.op = "tick" /\ out'.evaluated
      /\ IsHandshakeLike(HbTag(settings)) /\ ~IsHeartbeat(HbTag(settings))
      /\ tickPrev # Undefined)
       => (out'.beat <=> NumNeq(ToNumber(HbValue), ToNumber(tickPrev)))]_vars

\* C7: an evaluation at time now reports ok exactly when a beat has been
\* detected, at time b, and now - b <= HEARTBEAT_TIMEOUT_MS; it reports not
\* ok when no beat has ever been detected.
C7_Window ==
  out.evaluated =>
    (out.ok <=> (beatAt # Null /\ now - beatAt.n <= HEARTBEAT_TIMEOUT_MS))
\* An evaluation exactly one timeout window after the last beat reports ok.
C7_Witness ==
  /\ out.op = "tick" /\ out.evaluated /\ out.ok /\ ~out.beat
  /\ beatAt # Null /\ now - beatAt.n = HEARTBEAT_TIMEOUT_MS

\* C8: a tick that evaluates ok writes a comms event to every connected
\* client (other than one whose own write throws) if and only if ok differs
\* from the announced state or nothing has been announced yet.
C8_Claim ==
  [][(out'.op = "tick" /\ out'.evaluated)
       => \A c \in Range(sseClients) \ out'.failed :
            c \in out'.commsTo <=> Announce(lastCommsOk, out'.ok)]_vars

\* C9: when a tick broadcasts a patch or a comms event and the write to one
\* client throws, every other connected client is still written that event.
C9_Claim ==
  (out.op = "tick" /\ out.failed # {}) =>
     (Range(sseClients) \ out.failed)
        \subseteq (IF out.evaluated THEN out.commsTo ELSE out.patchTo)

\* C10: a client whose write throws during a patch broadcast, a comms
\* broadcast or a keepalive is no longer in the client set afterwards.
C10_Claim ==
  out.op \in {"tick", "keepalive"} => out.failed \cap Range(sseClients) = {}

\* ------------------------------------------------------------ poll loop
\* C11: once the poll loop has started it never stops: the timer is never
\* cleared and from every state in which it is set, whatever the last tick
\* did and however many clients are left, a further tick runs.
C11_TimerKept == pollTimer => pollTimer'
C11_NeverStops ==
  /\ [][C11_TimerKept]_vars
  /\ (<>[]pollTimer => []<><<TickStep>>_vars)
\* A tick whose source read threw, with every client gone.
C11_Witness ==
  pollTimer /\ out.op = "tick" /\ ~out.diffed /\ sseClients = <<>>

\* C12: a tick in which an upstream query throws, at whichever point of the
\* tick, changes none of LastSentState, lastBeatTs, lastBeatVal, lastCommsOk
\* and writes no event to any client.  (A tick that did not reach the end
\* of its evaluation although no write threw is one in which a query threw.)
C12_Claim ==
  [][(out'.op = "tick" /\ ~out'.evaluated /\ out'.failed = {})
       => /\ UNCHANGED <<lastSent, lastBeatTs, lastBeatVal, lastCommsOk>>
          /\ out'.patchTo = {} /\ out'.commsTo = {}]_vars

\* ------------------------------------------------------------- auth gate
HandlerOp(route) == IF route = "/hmi-data" THEN "join" ELSE route
\* C13: a request whose bearer token is missing or invalid is answered 401,
\* runs no route handler and leaves the client set, the poll timer,
\* LastSentState and the liveness state unchanged; a route handler runs only
\* for a request that passed verification.
C13_Gate ==
  /\ out.op = "401" => req.token # "valid"
  /\ out.op \in {HandlerOp(r) : r \in Routes}
       => (req.token = "valid" /\ out.op = HandlerOp(req.route))
C13_NoEffect ==
  (out'.op \in {"401", "join"} \cup Routes /\ req'.token # "valid") =>
     /\ out'.op = "401"
     /\ UNCHANGED <<sseClients, pollTimer, timers, lastSent,
                    lastBeatTs, lastBeatVal, lastCommsOk>>
C13_AuthGate == []C13_Gate /\ [][C13_NoEffect]_vars
\* A forged bearer token on the stream route is turned away while a client
\* is connected and the poller runs.
C13_Witness ==
  /\ out.op = "401" /\ req = [route |-> "/hmi-data", token |-> "forged"]
  /\ Len(sseClients) = 1 /\ pollTimer

\* ------------------------------------------------------------ client set
\* C14: a client is added to the client set when it opens the stream and
\* removed when its connection closes; nothing else changes the set, and a
\* tick or keepalive writes only to members of the set at that moment, so
\* never to a closed client.
C14_Step ==
  /\ out'.op = "join" =>
        (sseClients' = Append(sseClients, out'.client) /\ out'.client \notin Range(sseClients))
  /\ out'.op = "close" =>
        (Len(sseClients') = Len(sseClients) - 1 /\ out'.client \in Range(sseClients))
  /\ out'.op \notin {"join", "close"} => sseClients' = sseClients
  /\ out'.op \in {"tick", "keepalive"} =>
        (out'.patchTo \cup out'.commsTo \cup out'.failed) \subseteq Range(sseClients')
C14_ClientSet == [][C14_Step]_vars
\* The last client has closed and a tick has run since: it wrote to nobody.
C14_Witness ==
  /\ out.op = "tick" /\ out.diffed /\ Len(out.updates) > 0
  /\ sseClients = <<>> /\ out.patchTo = {} /\ lastBcast # Undefined

\* C15: lastBeatTs, lastBeatVal and lastCommsOk are changed by the poll tick
\* only: a join, a close, a keepalive and the queries leave them unchanged.
C15_Claim ==
  [][out'.op # "tick" => UNCHANGED <<lastBeatTs, lastBeatVal, lastCommsOk>>]_vars

\* C16: at most one poll timer exists in every reachable state: the first
\* stream subscription creates it, no later one creates another.
C16_OneTimer == timers <= 1 /\ (pollTimer <=> timers = 1)
\* A subscription made after every earlier client has left.
C16_Witness ==
  out.op = "join" /\ out.client = 1 /\ lastBcast # Undefined /\ timers = 1

\* ------------------------------------------------------ registry builder
\* The strings the layout walk meets, in walk order: a string itself, the
\* members of an array in order, an object's tagId and then the values under
\* its keys.
RECURSIVE Walk(_), WalkEach(_)
Walk(val) ==
  CASE val.k = "str" -> <<val.s>>
    [] val.k = "arr" -> WalkEach(val.kids)
    [] val.k = "obj" -> <<val.s>> \o WalkEach(Entries(val))
WalkEach(vals) ==
  IF vals = <<>> THEN <<>> ELSE Walk(Head(vals)) \o WalkEach(Tail(vals))
References(lay) ==
  Concat([p \in 1..Len(lay.pages) |->
     Concat([q \in 1..Len(PageSections(lay.pages[p])) |->
        LET refs == WalkEach(SectionItems(PageSections(lay.pages[p])[q]))
        IN [i \in 1..Len(refs) |-> Trim(refs[i])]])])
FirstAt(q, x) == CHOOSE i \in 1..Len(q) : q[i] = x /\ \A j \in 1..(i - 1) : q[j] # x

\* C17: the registry tag list holds each concrete tag the layout references
\* exactly once, ordered by the position of its first occurrence in the
\* layout walk (pages, then sections, then items), whatever the number and
\* the shapes of the references.
C17_DedupOrdered ==
  built.stage = "built" =>
    LET refs == References(layout)
        tags == built.tags
    IN /\ Range(tags) = {refs[i] : i \in {j \in 1..Len(refs) : TAG_REGEX(refs[j])}}
       /\ \A i, j \in 1..Len(tags) : i # j => tags[i] # tags[j]
       /\ \A i, j \in 1..Len(tags) :
            i < j => FirstAt(refs, tags[i]) < FirstAt(refs, tags[j])
\* Three tags out of five references, one tag met inside an array, as the
\* tagId of an object and as a string under a key of that object.
C17_Witness ==
  /\ built.stage = "built"
  /\ Len(References(layout)) >= 5
  /\ built.tags = <<TAG_B, TAG_A, TAG_R>>

\* The digit strings a placeholder can stand for in the tags at hand.
DigitStrs == {<<d>> : d \in Digits} \cup {<<d, e>> : d \in Digits, e \in Digits}
Hashes(str) == Cardinality({i \in 1..Len(str) : str[i] = "#"})
HashRank(str, i) == Cardinality({j \in 1..i : str[j] = "#"})
\* str with its k-th "#" replaced by the k-th of caps (by nothing beyond).
Subst(str, caps) ==
  Concat([i \in 1..Len(str) |->
            IF str[i] # "#" THEN <<str[i]>>
            ELSE IF HashRank(str, i) <= Len(caps) THEN caps[HashRank(str, i)]
            ELSE <<>>])
\* The digit strings for which the template, each "#" standing for one, is
\* the whole tag.
Fills(tag, tplId) == {f \in [1..Hashes(tplId) -> DigitStrs] : Subst(tplId, f) = tag}
Matching(tag) == {i \in 1..Len(widgetsMap) : Fills(tag, widgetsMap[i].tagId) # {}}
First(ms) == CHOOSE i \in ms : \A j \in ms : i <= j

\* C18: the metadata of a tag matched by several templates is built from the
\* template that comes first in the table, a template matching when its
\* pattern, "#" standing for one or more digits and every other character
\* for itself, is the whole tag; a tag no template matches gets the raw
\* fallback.
C18_FirstTemplate ==
  built.stage = "built" =>
    \A k \in 1..Len(built.tags) :
      LET tag == built.tags[k]
          meta == built.metaByTag[k].meta
      IN /\ built.metaByTag[k].key = tag
         /\ IF Matching(tag) = {} THEN meta.widget = "raw"
            ELSE /\ meta.widget = widgetsMap[First(Matching(tag))].widget
                 /\ meta.valueType = widgetsMap[First(Matching(tag))].valueType
\* TAG_A under a table whose two templates both match it.
C18_Witness ==
  /\ built.stage = "built" /\ widgetsMap = <<TPL_PE1, TPL_PE>>
  /\ \E k \in 1..Len(built.tags) :
       built.tags[k] = TAG_A /\ built.metaByTag[k].meta.widget = "lamp"

\* C19: in label and description of the matching template the k-th "#" is
\* replaced by the k-th digit string captured from the tag, tagId becomes the
\* concrete tag and a field without "#" is left as it is.  Stated for fields
\* with no more placeholders than captures and no override.
C19_Field(field, made, caps) ==
  (field # NoString /\ Hashes(field) <= Len(caps)) => made = Subst(field, caps)
C19_Materialize ==
  built.stage = "built" =>
    \A k \in 1..Len(built.tags) :
      LET tag == built.tags[k]
          meta == built.metaByTag[k].meta
      IN (Matching(tag) # {} /\ CollectConcreteTags(layout)[k].override.keys = {}) =>
           LET tpl == widgetsMap[First(Matching(tag))]
           IN /\ meta.tagId = tag
              /\ meta.widget = tpl.widget
              /\ \A caps \in Fills(tag, tpl.tagId) :
                   /\ C19_Field(tpl.label, meta.label, caps)
                   /\ C19_Field(tpl.description, meta.description, caps)
\* "Recipe_Feedpoint#_projectName" with label "Feedpoint # project" on
\* "Recipe_Feedpoint3_projectName", and a template with two placeholders.
C19_Witness ==
  /\ built.stage = "built"
  /\ \E k \in 1..Len(built.tags) :
       /\ built.tags[k] = TAG_R
       /\ built.metaByTag[k].meta.label = <<"Feedpoint ", "3", " project">>
  /\ \E k \in 1..Len(built.tags) :
       /\ built.tags[k] = TAG_B
       /\ built.metaByTag[k].meta.description = <<"1", ".", "2">>

\* C20: no "#" survives in a materialized label or description: every
\* placeholder beyond the captured digit strings is replaced by the empty
\* string, also when there is no captured digit string at all.
C20_Claim ==
  built.stage = "built" =>
    \A k \in 1..Len(built.tags) :
      LET meta == built.metaByTag[k].meta
      IN /\ "#" \notin Range(meta.label)
         /\ meta.description # NoString => "#" \notin Range(meta.description)

\* C21: a collected tag that no template matches and that carries no
\* override gets exactly the generic fallback metadata: tagId and label the
\* tag name unchanged, widget "raw", valueType "string" and nothing else.
C21_Fallback ==
  built.stage = "built" =>
    \A k \in 1..Len(built.tags) :
      LET tag == built.tags[k]
      IN (Matching(tag) = {} /\ CollectConcreteTags(layout)[k].override.keys = {}) =>
           built.metaByTag[k].meta =
             [tagId |-> tag, label |-> tag, description |-> NoString,
              widget |-> "raw", valueType |-> "string"]
\* TOHMI_PE1_2 under a table none of whose templates matches it, next to a
\* tag that a template matches.
C21_Witness ==
  /\ built.stage = "built" /\ widgetsMap = <<TPL_PROJECT, TPL_PE>>
  /\ built.tags = <<TAG_B, TAG_R>>
  /\ built.metaByTag[1].meta.label = TAG_B /\ built.metaByTag[1].meta.widget = "raw"
  /\ built.metaByTag[2].meta.widget = "text"

\* The reference objects of the layout that have a sibling override, in
\* walk order.
RECURSIVE Overridden(_), OverriddenEach(_)
Overridden(val) ==
  CASE val.k = "str" -> <<>>
    [] val.k = "arr" -> OverriddenEach(val.kids)
    [] val.k = "obj" ->
         (IF val.override.keys # {} THEN <<val>> ELSE <<>>)
           \o OverriddenEach(Entries(val))
OverriddenEach(vals) ==
  IF vals = <<>> THEN <<>> ELSE Overridden(Head(vals)) \o OverriddenEach(Tail(vals))
OverrideRefs(lay) ==
  Concat([p \in 1..Len(lay.pages) |->
     Concat([q \in 1..Len(PageSections(lay.pages[p])) |->
        OverriddenEach(SectionItems(PageSections(lay.pages[p])[q]))])])

\* C22: for every reference object of the layout with a sibling override,
\* the registry metadata of its tag carries the override's value on every
\* key of the override, wherever the reference occurs relative to other
\* references to the same tag.
C22_Claim ==
  built.stage = "built" =>
    \A r \in Range(OverrideRefs(layout)) :
      \A k \in 1..Len(built.tags) :
        built.tags[k] = Trim(r.s) =>
          /\ "label" \in r.override.keys => built.metaByTag[k].meta.label = r.override.label
          /\ "widget" \in r.override.keys => built.metaByTag[k].meta.widget = r.override.widget

\* C23: startup never fails on bad configuration: whatever the layout file
\* (missing, unparsable, a non-object root, no pages array, a page or section
\* entry that is null or not an object) and the template table, attach gets
\* past buildRegistry with an empty or partial registry instead of throwing,
\* so that its routes, the status endpoint among them, are registered.
C23_Claim == built.stage # "threw"

\* ------------------------------------------------------------ data access
\* The source holds the tag: a row object whose first non-nullish key
\* property is the tag name, or an own property of the object map.
RowKey(row) ==
  IF row.tagId \notin {Null, Undefined} THEN row.tagId
  ELSE IF row.name \notin {Null, Undefined} THEN row.name
  ELSE IF row.tag \notin {Null, Undefined} THEN row.tag
  ELSE row.id
Contains(src, t) ==
  /\ src # Null
  /\ IF IsArray(src)
       THEN \E i \in 1..Len(src.rows) : src.rows[i].k = "row" /\ RowKey(src.rows[i]) = Name(t)
       ELSE t \in DOMAIN src /\ src[t] # Absent

\* C24: a snapshot holds exactly one record per tag of the tag list, in
\* tag-list order, and the record of a tag the source does not contain is
\* {value: null, ts: null}, for the array shape (null and non-object rows
\* included), the object-map shape and a null source.
C24_ReadAll ==
  out.op = "/hmi-structure" =>
    /\ Len(out.updates) = Len(registry)
    /\ \A i \in 1..Len(registry) :
         /\ out.updates[i].tagId = registry[i]
         /\ ~Contains(data, registry[i])
              => (out.updates[i].value = Null /\ out.updates[i].ts = Null)
\* An array source with a null row before the row of the second tag, and no
\* row for the first.
C24_Witness ==
  /\ out.op = "/hmi-structure"
  /\ data = [rows |-> <<Null, [NoRow EXCEPT !.name = Name(MODE_TAG), !.v = Num(1)]>>]
  /\ out.updates[1] = [tagId |-> SPEED_TAG, value |-> Null, ts |-> Null]
  /\ out.updates[2] = [tagId |-> MODE_TAG, value |-> Num(1), ts |-> Null]

\* C25: the tag list and the keys of the metadata map are the same tags,
\* one metadata record per tag, and neither the list nor the map changes
\* once buildRegistry has returned, whatever status and structure queries,
\* stream subscriptions, poll ticks, closes and keepalives follow.
C25_Keys ==
  built.stage = "built" =>
    /\ Len(built.metaByTag) = Len(built.tags)
    /\ \A k \in 1..Len(built.tags) : built.metaByTag[k].key = built.tags[k]
    /\ \A i, j \in 1..Len(built.tags) : i # j => built.tags[i] # built.tags[j]
C25_Frozen == built.stage = "built" => built' = built
C25_Registry == []C25_Keys /\ [][C25_Frozen]_vars
\* A tick with a client connected, after a structure query, over a registry
\* of three tags.
C25_Witness ==
  /\ built.stage = "built" /\ Len(built.tags) = 3
  /\ req.route = "/hmi-structure" /\ out.op = "tick" /\ Len(sseClients) > 0

\* --------------------------------------------------------- client views
\* A tick that completes: it read the source, evaluated liveness and no
\* write threw.
Completed == out.op = "tick" /\ out.diffed /\ out.evaluated /\ out.failed = {}

\* C26: after every poll tick that completes, the last value delivered to
\* each connected client, by its join-time initial patch or by a later
\* broadcast patch, is the value the tick read from the source.  Stated for
\* PROBE_TAG, all writes succeeding.
C26_Claim ==
  Completed => \A i \in 1..Len(view) : view[i].value = ValueOf(PROBE_TAG)

\* C27: after every poll tick that completes, the ok of the last comms event
\* each connected client received, at its join or from a later broadcast, is
\* the ok that tick evaluated.
C27_Claim ==
  Completed => \A i \in 1..Len(view) : view[i].ok = Bool(out.ok)

\* C28: liveness is evaluated and its state advanced on every poll tick
\* whose queries of the source answer, independently of the patch step: with
\* no changed tag, with no client connected, and when a write of the patch
\* throws, lastBeatVal becomes the value read in the tick and a beat in the
\* tick sets lastBeatTs.
C28_Claim ==
  [][(out'.op = "tick" /\ out'.diffed /\ (out'.evaluated \/ out'.failed # {}))
       => /\ lastBeatVal' = HbValue
          /\ BeatDetected(HbTag(settings), HbValue, lastBeatVal) => lastBeatTs' = Num(now)]_vars

\* C29: before the first beat liveness is unknown and reported as not ok:
\* for every beat tag classification the first evaluation after startup
\* reports ok = false.
C29_Claim ==
  [][(out'.evaluated /\ lastBeatVal = Undefined) => ~out'.ok]_vars

\* C30: under handshake semantics an evaluation whose beat tag is missing
\* from the source (read as null) detects no beat and does not set
\* lastBeatTs, whatever the previous raw value was.  Stated for evaluations
\* after the first.
C30_Claim ==
  [][(/\ out'.evaluated /\ lastBeatVal # Undefined
      /\ IsHandshakeLike(HbTag(settings)) /\ ~IsHeartbeat(HbTag(settings))
      /\ HbValue = Null)
       => (~out'.beat /\ lastBeatTs' = lastBeatTs)]_vars

\* ------------------------------------------------------------ timestamps
\* C31: when a tick reads for a tag the value LastSentState holds, the tag
\* is not in the tick's updates and the stored value stays; the stored
\* timestamp becomes the source's when that one is present and newer, and
\* otherwise the entry is left as it is.
C31_Step ==
  (out'.op = "tick" /\ out'.diffed) =>
    \A t \in Range(registry) :
      LET cur == ReadOne(data, t)
          prev == lastSent[t]
      IN (prev.has /\ prev.value = cur.value) =>
           /\ ~TagIn(out'.updates, t)
           /\ lastSent'[t].has /\ lastSent'[t].value = prev.value
           /\ IF cur.ts # Null /\ cur.ts.n > prev.ts.n
                THEN lastSent'[t].ts = cur.ts
                ELSE lastSent'[t] = prev
C31_StampOnly == [][C31_Step]_vars
\* A tick with a client connected that writes no patch and leaves the newer
\* timestamp 9 stored with the value first recorded at timestamp 5.
C31_Witness ==
  /\ out.op = "tick" /\ out.diffed /\ out.updates = <<>> /\ out.patchTo = {}
  /\ Len(sseClients) > 0
  /\ data[PROBE_TAG] = Obj(Num(1), Num(9))
  /\ lastSent[PROBE_TAG] = Entry(Num(1), Num(9))
  /\ lastBcast = Num(1)

\* -------------------------------------------------------------- keepalive
KeepaliveStep == \E f \in SUBSET Clients : Keepalive(f)
\* C32: a keepalive interval writes one heartbeat to every connected client
\* other than those whose own write throws, and the next interval can
\* always run, whatever failed before.
C32_Step ==
  out'.op = "keepalive" =>
    /\ out'.commsTo = Range(sseClients) \ out'.failed
    /\ out'.failed \subseteq Range(sseClients)
C32_Isolated == [](ENABLED KeepaliveStep) /\ [][C32_Step]_vars
\* With two clients the write to the first throws and the second is written
\* to.
C32_Witness ==
  out.op = "keepalive" /\ sseClients = <<1, 2>> /\ out.failed = {1} /\ out.commsTo = {2}

\* ------------------------------------------------------ registry builder
\* C33: for every tag of the registry the metadata stored under it has that
\* tag as its tagId, for every template table and every layout, references
\* with an override object included.
C33_Claim ==
  built.stage = "built" =>
    \A k \in 1..Len(built.tags) : built.metaByTag[k].meta.tagId = built.tags[k]

\* The strings of a value at any depth, each with whether a key on the way to
\* it is one of the skipped keys.
RECURSIVE Leaves(_, _)
Leaves(val, under) ==
  CASE val.k = "str" -> {[s |-> val.s, skipped |-> under]}
    [] val.k = "arr" -> UNION {Leaves(val.kids[i], under) : i \in 1..Len(val.kids)}
    [] val.k = "obj" ->
         {[s |-> val.s, skipped |-> under]}
         \cup UNION {Leaves(val.kids[i], under \/ val.keys[i] \in SKIP_KEYS) :
                        i \in 1..Len(val.kids)}
LayoutLeaves(lay) ==
  UNION {UNION {UNION {Leaves(SectionItems(PageSections(lay.pages[p])[q])[i], FALSE) :
                         i \in 1..Len(SectionItems(PageSections(lay.pages[p])[q]))} :
                  q \in 1..Len(PageSections(lay.pages[p]))} :
           p \in 1..Len(lay.pages)}
TagShaped(x) == TAG_REGEX(Trim(x.s))

\* C34: the layout walk is a full deep traversal: every tag-shaped string at
\* any depth under a section item is collected, the fields nested in a
\* reference object that has a tagId included, and a string under one of the
\* keys override, component, key, title, id, or starting with "key_", is never
\* what puts a tag in the registry.
C34_Deep ==
  built.stage = "built" =>
    LET leaves == LayoutLeaves(layout)
    IN /\ \A x \in leaves :
            (~x.skipped /\ TagShaped(x)) => Trim(x.s) \in Range(built.tags)
       /\ \A t \in Range(built.tags) :
            \E x \in leaves :
              /\ ~x.skipped /\ Trim(x.s) = t
              /\ ~(x.s # <<>> /\ Head(x.s) = "key_")
\* One item: a reference object with a tagId, a tag under its title, another
\* two levels down under an ordinary key and a reference under its id; the
\* tagId and the nested tag are collected, the tag under title and id is not.
C34_Witness ==
  /\ built.stage = "built"
  /\ built.tags = <<TAG_B, TAG_A>>
  /\ \E x \in LayoutLeaves(layout) : x.skipped /\ x.s = TAG_R
  /\ \A x \in LayoutLeaves(layout) : x.s = TAG_R => x.skipped

\* ---------------------------------------------------------- source shapes
\* The first of the values that is neither null nor undefined, null when
\* there is none.
FirstGiven(q) ==
  LET given == {i \in 1..Len(q) : q[i] \notin {Null, Undefined}}
  IN IF given = {} THEN Null ELSE q[CHOOSE i \in given : \A j \in given : i <= j]
\* The rows of an array source that name the tag.
RowsOf(src, t) ==
  {i \in 1..Len(src.rows) : src.rows[i].k = "row" /\ RowKey(src.rows[i]) = Name(t)}
\* A map entry that is a record of a value and a timestamp.
IsRecord(e) == e.k = "object" /\ (e.value # Absent \/ e.ts # Absent)

\* C35: for a list of records a tag reads as the value field (value, else
\* val, else v) of the first record whose tag-identifying field (tagId, else
\* name, else tag, else id) is the tag; for a map it reads as the raw value
\* stored under the tag name, with no timestamp, or, when the entry is a
\* record of a value and a timestamp, as that record's value and timestamp.
C35_Shapes ==
  out.op = "/hmi-structure" =>
    \A i \in 1..Len(registry) :
      LET t == registry[i]
          got == out.updates[i]
      IN Contains(data, t) =>
           IF IsArray(data)
             THEN LET row == data.rows[CHOOSE r \in RowsOf(data, t) :
                                         \A q \in RowsOf(data, t) : r <= q]
                  IN got.value = FirstGiven(<<row.value, row.val, row.v>>)
             ELSE LET e == data[t]
                  IN IF IsRecord(e)
                       THEN /\ got.value = FirstGiven(<<Prop(e.value)>>)
                            /\ got.ts = FirstGiven(<<Prop(e.ts)>>)
                       ELSE got.value = e /\ got.ts = Null
\* A list in which the first record of the second tag names it under tag and
\* holds its value under val, ahead of a record that names it under tagId.
C35_Witness ==
  /\ out.op = "/hmi-structure"
  /\ data = [rows |-> <<[NoRow EXCEPT !.tag = Name(MODE_TAG), !.tagId = Null,
                                      !.val = Str(1), !.value = Null,
                                      !.timestamp = Num(7)],
                        [NoRow EXCEPT !.tagId = Name(MODE_TAG), !.value = Num(1),
                                      !.ts = Num(7)]>>]
  /\ out.updates[2] = [tagId |-> MODE_TAG, value |-> Str(1), ts |-> Num(7)]
\* A map that holds a raw value under the first tag and a record of a value
\* and a timestamp under the second.
C35_WitnessMap ==
  /\ out.op = "/hmi-structure"
  /\ ~IsArray(data) /\ data # Null
  /\ data[SPEED_TAG] = Num(1) /\ data[MODE_TAG] = Obj(Num(1), Num(7))
  /\ out.updates[1] = [tagId |-> SPEED_TAG, value |-> Num(1), ts |-> Null]
  /\ out.updates[2] = [tagId |-> MODE_TAG, value |-> Num(1), ts |-> Num(7)]

\* ========================================================== ServerConnect
\* C36: whenever the client's connection closes, at any point of the request
\* and also while the upstream stream is still being opened, the upstream
\* request is aborted: no upstream stream stays open for a client that is
\* gone.
C36_Claim == (Streaming /\ proxy.client = "closed") => proxy.upstream # "open"

\* C37: the chunks written to the client are the chunks of the upstream, in
\* arrival order; once the upstream has ended, failed (one error event
\* written) or could not be opened (one error event written) the response
\* is ended, and not before; nothing is written to a response after it has
\* been ended.
C37_State ==
  Streaming =>
    /\ SelectSeq(proxy.written, LAMBDA w : w \in Chunks) = proxy.arrived
    /\ proxy.ended <=> proxy.upstream \in {"ended", "errored", "aborted", "failed"}
    /\ proxy.written =
         <<CONNECTED>> \o proxy.arrived
           \o (CASE proxy.upstream \in {"errored", "aborted"} -> <<ERR_UPSTREAM>>
                  [] proxy.upstream = "failed" -> <<ERR_OPEN>>
                  [] OTHER -> <<>>)
C37_Step ==
  (Streaming /\ proxy.ended /\ proxy'.upstream # "pending") => proxy'.written = proxy.written
C37_Terminates == []C37_State /\ [][C37_Step]_vars
\* Both chunks arrived and were written in order, then the upstream failed.
C37_Witness ==
  /\ Streaming /\ proxy.upstream = "errored" /\ proxy.ended
  /\ proxy.arrived = <<"b", "a">>
  /\ proxy.written = <<CONNECTED, "b", "a", ERR_UPSTREAM>>

\* C38: a request to a route of /hmi reaches its handler, and causes a call
\* to hmi-live, only after a mobile-auth check has accepted its token: a
\* request without a token causes no upstream call.
C38_Claim == proxy.calls > 0 => proxy.token # ""

\* ------------------------------------------------------ the peer scanner
NoRepeat(q) == \A i, j \in 1..Len(q) : i # j => q[i] # q[j]
C39_State ==
  /\ NoRepeat(scan.probed)
  /\ Range(scan.probed) \subseteq Hosts \ {scan.localIp}
  /\ Cardinality(scan.inflight) <= MAX_CONCURRENCY
  /\ scan.phase = "returned" =>
       /\ Range(scan.probed) = Hosts \ {scan.localIp}
       /\ scan.inflight = {} /\ scan.queue = <<>>
       /\ NoRepeat(scan.returned)
       /\ Range(scan.returned) = scan.answered
  /\ scan.phase = "running" => scan.returned = <<>>
\* C39: in the scan of one subnet every address but the host's own is probed
\* exactly once, at most MAX_CONCURRENCY probes are in flight at any moment,
\* every probe completes, and scanSubnet returns only after all of them have,
\* with exactly the probes that answered OK.
C39_Scan == []C39_State /\ (scan.phase = "running" ~> scan.phase = "returned")
\* A scan from the second address: three probes with two in flight at most,
\* the fourth address answering before the first.
C39_Witness ==
  /\ scan.phase = "returned" /\ scan.localIp = 2
  /\ scan.probed = <<1, 3, 4>>
  /\ scan.answered = {1, 4} /\ scan.returned = <<4, 1>>

\* ========================================================= demo simulator
\* C40: the published handshake value steps through 1, 2, ..., 300 one step
\* at a time, holds 300 for the pause, and then starts the same cycle again
\* from 1: it only ever changes by one step up, or from 300 to 1.
C40_Step ==
  sim'.value # sim.value =>
    \/ sim'.value = sim.value + 1
    \/ sim.value = HB_LAST /\ sim'.value = 1
C40_Claim == [][C40_Step]_vars

====
